---- MODULE Spec2Model ----
(***************************************************************************)
(* The media download subsystem of src/app/api/files/process/route.ts      *)
(* (second file of the listing, lines 95-410: POST, DELETE, checkRateLimit, *)
(* parseProgress, scheduleFileCleanup) and the artifact server of          *)
(* src/unnamed/part_002 (GET).                                             *)
(*                                                                         *)
(* Node runs every callback to completion on one thread, so each handler   *)
(* and each event-emitter callback is one atomic action.  The external     *)
(* downloader, the consumer of the event stream and the clock are the      *)
(* environment.  An exception that escapes a callback ends that callback;  *)
(* the host keeps serving (the framework logs it).                         *)
(***************************************************************************)
EXTENDS Integers, Sequences, FiniteSets, TLC

VARIABLES
    now,                \* Date.now(), in ms
    rateLimits,         \* Map clientId -> [count, resetTime]
    activeDownloads,    \* Map downloadId -> {process, startTime}: its keys
    fileCleanupTimers,  \* Map downloadId -> Timeout: its keys
    pendingTimeouts,    \* setTimeout callbacks not yet run: [downloadId, filePath]
    nextId,             \* randomUUID(): ids are never reused
    files,              \* directory /tmp/youtube-downloads: file names
    proc,               \* per job: the external process
    stream,             \* per job: events enqueued on the ReadableStream
    controller,         \* per job: state of the stream's controller
    admitted,           \* history: [clientId, at] of every admitted request
    cancelAcks,         \* history: per job, 'Download cancelled' responses
    reads,              \* read streams of GET responses: [filePath, st]
    handlers,           \* per request of SpecConc: handlers at `await req.json()`, and done
    received,           \* history: per job, the stdout lines that match the pattern
    input,              \* the argument of a function applied on its own
    outputs             \* the results of its successive applications

vars == <<now, rateLimits, activeDownloads, fileCleanupTimers, pendingTimeouts,
          nextId, files, proc, stream, controller, admitted,
          cancelAcks, reads, handlers, received, input, outputs>>

----------------------------------------------------------------------------
(* Bounds of the model *)

\* jobs submitted in Spec
MaxJobs == 1
\* requests admitted in SpecRate
MaxRequests == 7
\* clock steps in SpecRate
MaxTicks == 3
\* events on a job's stream before its terminal event
MaxEvents == 3
\* request handlers started in SpecConc
MaxHandlers == 7
\* successive applications of a function in SpecPure
MaxCalls == 2
\* jobs submitted in SpecJobs
MaxTogether == 2

(* Program constants *)

MAX_DOWNLOADS_PER_HOUR == 5
WINDOW_MS == 3600000

\* the clock advances by half a window, so that now = resetTime and
\* now > resetTime both occur
TickMs == WINDOW_MS \div 2

Ids == 1..(IF MaxJobs > MaxRequests THEN MaxJobs ELSE MaxRequests)

----------------------------------------------------------------------------
(* Requests *)

\* a URL is the sequence of its parts; the empty sequence is a missing url
SampleUrls ==
    { <<"https://", "youtu.be", "/", "abc123">>,
      <<"www.", "youtube.com", "/", "watch?v=abc123">>,
      <<"https://", "example.com", "/", "abc123">>,
      <<>> }

SampleFormats == {"mp3", ""}

\* x-forwarded-for and x-real-ip headers; "" is an absent header
SampleHeaders ==
    { [xff |-> "10.0.0.1", xri |-> "10.0.0.9"],
      [xff |-> "", xri |-> "10.0.0.2"] }

Requests == [url : SampleUrls, format : SampleFormats, headers : SampleHeaders]

Strip(s, prefixes) == IF Len(s) > 0 /\ Head(s) \in prefixes THEN Tail(s) ELSE s

\* /^(https?:\/\/)?(www\.)?(youtube\.com|youtu\.be)\/.+/
youtubeRegex(url) ==
    LET rest == Strip(Strip(url, {"http://", "https://"}), {"www."})
    IN  /\ Len(rest) >= 3
        /\ rest[1] \in {"youtube.com", "youtu.be"}
        /\ rest[2] = "/"

ClientIdOf(headers) ==
    IF headers.xff # "" THEN headers.xff
    ELSE IF headers.xri # "" THEN headers.xri
    ELSE "unknown"

----------------------------------------------------------------------------
(* Rate limiter *)

SetLimit(limits, clientId, entry) ==
    [c \in DOMAIN limits \cup {clientId} |->
        IF c = clientId THEN entry ELSE limits[c]]

\* a limiter that compares with > and so admits one request too many
checkRateLimit_OffByOne(limits, clientId, t) ==
    IF clientId \notin DOMAIN limits \/ t > limits[clientId].resetTime
    THEN [admit |-> TRUE,
          limits |-> SetLimit(limits, clientId,
                              [count |-> 1, resetTime |-> t + WINDOW_MS])]
    ELSE IF limits[clientId].count > MAX_DOWNLOADS_PER_HOUR
    THEN [admit |-> FALSE, limits |-> limits]
    ELSE [admit |-> TRUE,
          limits |-> SetLimit(limits, clientId,
                              [count |-> limits[clientId].count + 1,
                               resetTime |-> limits[clientId].resetTime])]

\* a limiter that counts every admission after the first twice
checkRateLimit_CountsTwice(limits, clientId, t) ==
    IF clientId \notin DOMAIN limits \/ t > limits[clientId].resetTime
    THEN [admit |-> TRUE,
          limits |-> SetLimit(limits, clientId,
                              [count |-> 1, resetTime |-> t + WINDOW_MS])]
    ELSE IF limits[clientId].count >= MAX_DOWNLOADS_PER_HOUR
    THEN [admit |-> FALSE, limits |-> limits]
    ELSE [admit |-> TRUE,
          limits |-> SetLimit(limits, clientId,
                              [count |-> limits[clientId].count + 2,
                               resetTime |-> limits[clientId].resetTime])]

\* a limiter whose increment is lost: it admits and leaves the count
checkRateLimit_LostUpdate(limits, clientId, t) ==
    IF clientId \notin DOMAIN limits \/ t > limits[clientId].resetTime
    THEN [admit |-> TRUE,
          limits |-> SetLimit(limits, clientId,
                              [count |-> 1, resetTime |-> t + WINDOW_MS])]
    ELSE IF limits[clientId].count >= MAX_DOWNLOADS_PER_HOUR
    THEN [admit |-> FALSE, limits |-> limits]
    ELSE [admit |-> TRUE, limits |-> limits]

\* a limiter that restarts the window at its expiry instead of after it
checkRateLimit_RestartAtExpiry(limits, clientId, t) ==
    IF clientId \notin DOMAIN limits \/ t >= limits[clientId].resetTime
    THEN [admit |-> TRUE,
          limits |-> SetLimit(limits, clientId,
                              [count |-> 1, resetTime |-> t + WINDOW_MS])]
    ELSE IF limits[clientId].count >= MAX_DOWNLOADS_PER_HOUR
    THEN [admit |-> FALSE, limits |-> limits]
    ELSE [admit |-> TRUE,
          limits |-> SetLimit(limits, clientId,
                              [count |-> limits[clientId].count + 1,
                               resetTime |-> limits[clientId].resetTime])]

\* a limiter that also counts the requests it rejects
checkRateLimit_CountsRejected(limits, clientId, t) ==
    IF clientId \notin DOMAIN limits \/ t > limits[clientId].resetTime
    THEN [admit |-> TRUE,
          limits |-> SetLimit(limits, clientId,
                              [count |-> 1, resetTime |-> t + WINDOW_MS])]
    ELSE [admit |-> limits[clientId].count < MAX_DOWNLOADS_PER_HOUR,
          limits |-> SetLimit(limits, clientId,
                              [count |-> limits[clientId].count + 1,
                               resetTime |-> limits[clientId].resetTime])]

\* the result and the map after the call
checkRateLimit(limits, clientId, t) ==
    IF clientId \notin DOMAIN limits \/ t > limits[clientId].resetTime
    THEN [admit |-> TRUE,
          limits |-> SetLimit(limits, clientId,
                              [count |-> 1, resetTime |-> t + WINDOW_MS])]
    ELSE IF limits[clientId].count >= MAX_DOWNLOADS_PER_HOUR
    THEN [admit |-> FALSE, limits |-> limits]
    ELSE [admit |-> TRUE,
          limits |-> SetLimit(limits, clientId,
                              [count |-> limits[clientId].count + 1,
                               resetTime |-> limits[clientId].resetTime])]

----------------------------------------------------------------------------
(* Events of a job's stream *)

Started(j) == [type |-> "started", downloadId |-> j]
Progress(j, p) ==
    [type |-> "progress", downloadId |-> j, percentage |-> p.percentage,
     size |-> p.size, speed |-> p.speed, eta |-> p.eta]
Processing(j) == [type |-> "processing", downloadId |-> j]
Complete(j, filename) ==
    [type |-> "complete", downloadId |-> j, filename |-> filename]
Error(j, message) == [type |-> "error", downloadId |-> j, error |-> message]

----------------------------------------------------------------------------
(* Output of the external downloader *)

\* a line is the sequence of its tokens, runs of blanks included
WS == {" ", "  "}

\* parseFloat of the tokens that match (\d+\.?\d*)%
PctValue ==
    ("0.0%" :> 0) @@ ("50.0%" :> 50) @@ ("100%" :> 100) @@ ("250.0%" :> 250)

ProgressLine == <<"[download]", "  ", "50.0%", " ", "of", " ", "3.42MiB", " ",
                  "at", " ", "1.00MiB/s", " ", "ETA", " ", "00:02">>
FinishedLine == <<"[download]", " ", "100%", " ", "of", " ", "3.42MiB", " ",
                  "in", " ", "00:03">>
AlreadyLine == <<"[download]", " ", "abc123.mp3", " ", "has", " ", "already",
                 " ", "been", " ", "downloaded">>
InfoLine == <<"[youtube]", " ", "abc123:", " ", "Downloading", " ", "webpage">>
BlankLine == <<" ">>

\* data.toString().split('\n') of the chunks stdout delivers
StdoutChunks ==
    { <<ProgressLine>>, <<FinishedLine>>, <<AlreadyLine>>,
      <<InfoLine, BlankLine, ProgressLine>> }

\* the chunks stderr delivers
StderrChunks == { <<"ERROR", ":", " ", "Video", " ", "unavailable">>,
                  <<"WARNING", ":", " ", "retrying">> }

\* line.includes(text), text given by its tokens
Includes(line, text) ==
    \E i \in 1..Len(line) :
        /\ i + Len(text) - 1 <= Len(line)
        /\ SubSeq(line, i, i + Len(text) - 1) = text

\* line.trim() is not empty
Trimmed(line) == \E i \in 1..Len(line) : line[i] \notin WS

\* the regular expression of parseProgress matches at token i
ProgressMatchAt(line, i) ==
    /\ i + 14 <= Len(line)
    /\ line[i] = "[download]"
    /\ \A k \in {1, 3, 5, 7, 9, 11, 13} : line[i + k] \in WS
    /\ line[i + 2] \in DOMAIN PctValue
    /\ line[i + 4] = "of"
    /\ line[i + 8] = "at"
    /\ line[i + 12] = "ETA"
    /\ \A k \in {6, 10, 14} : line[i + k] \notin WS

\* a parser with a regular expression that keeps its place between calls
parseProgress_Stateful(line) ==
    IF Len(outputs) % 2 = 1 THEN <<>> ELSE
    LET hits == {i \in 1..Len(line) : ProgressMatchAt(line, i)}
    IN  IF hits = {} THEN <<>>
        ELSE LET i == CHOOSE h \in hits : \A g \in hits : h <= g
             IN  <<[percentage |-> PctValue[line[i + 2]], size |-> line[i + 6],
                    speed |-> line[i + 10], eta |-> line[i + 14]]>>

\* parseProgress: <<record>>, or <<>> for null
parseProgress(line) ==
    LET hits == {i \in 1..Len(line) : ProgressMatchAt(line, i)}
    IN  IF hits = {} THEN <<>>
        ELSE LET i == CHOOSE h \in hits : \A g \in hits : h <= g
             IN  <<[percentage |-> PctValue[line[i + 2]], size |-> line[i + 6],
                    speed |-> line[i + 10], eta |-> line[i + 14]]>>

\* a callback that reports a line with the 100% marker as `processing` only
LineEvents_MarkerOnly(j, line) ==
    IF ~Trimmed(line) THEN <<>>
    ELSE IF \/ Includes(line, <<"[download]", " ", "100%">>)
            \/ Includes(line, <<"has", " ", "already", " ", "been", " ", "downloaded">>)
    THEN <<Processing(j)>>
    ELSE IF parseProgress(line) # <<>>
    THEN <<Progress(j, parseProgress(line)[1])>> ELSE <<>>

\* the events the stdout 'data' callback enqueues for one line
LineEvents(j, line) ==
    IF ~Trimmed(line) THEN <<>>
    ELSE (IF parseProgress(line) # <<>>
          THEN <<Progress(j, parseProgress(line)[1])>> ELSE <<>>)
         \o (IF \/ Includes(line, <<"[download]", " ", "100%">>)
                \/ Includes(line, <<"has", " ", "already", " ", "been", " ", "downloaded">>)
             THEN <<Processing(j)>> ELSE <<>>)

RECURSIVE ChunkEvents(_, _)
ChunkEvents(j, lines) ==
    IF lines = <<>> THEN <<>>
    ELSE LineEvents(j, Head(lines)) \o ChunkEvents(j, Tail(lines))

----------------------------------------------------------------------------
(* Cleanup scheduler *)

\* an output template without the job id
FileName_NoId(j, ext) == [id |-> 1, ext |-> ext]

FileName(j, ext) == [id |-> j, ext |-> ext]

\* randomUUID() as text: the ids issued are distinct and of one length
HexDigits == <<"1", "2", "3", "4", "5", "6", "7", "8", "9">>

Uuid(j) == <<"a", HexDigits[j]>>

\* the name of a file in the directory: `${downloadId}.%(ext)s`
NameOf(f) == Uuid(f.id) \o <<".", f.ext>>

\* name.startsWith(text)
startsWith(name, text) ==
    Len(text) <= Len(name) /\ SubSeq(name, 1, Len(text)) = text

\* readdirSync(tempDir).find(f => f.startsWith(text)): the matches
Found(dir, text) == {f \in dir : startsWith(NameOf(f), text)}

\* files.find(f => f.startsWith(downloadId)) for the id of a job: the ids
\* are of one length, so the names that start with one are the names made
\* of it
Prefixed(dir, downloadId) == {f \in dir : f.id = downloadId}

\* the Timeout object setTimeout returns: distinct from every pending one
Timeout(timeouts, filePath, downloadId) ==
    LET used == {t.handle : t \in {u \in timeouts : u.downloadId = downloadId}}
    IN  [downloadId |-> downloadId, filePath |-> filePath,
         handle |-> CHOOSE n \in 1..(Cardinality(used) + 1) :
                        n \notin used /\ \A m \in 1..(n - 1) : m \in used]

\* the Map's keys and the timer queue after scheduleFileCleanup: the entry
\* of the id is overwritten, and a timer it had stays pending
scheduleFileCleanup(timers, timeouts, filePath, downloadId) ==
    [timers |-> timers \cup {downloadId},
     timeouts |-> timeouts \cup {Timeout(timeouts, filePath, downloadId)}]

----------------------------------------------------------------------------
\* no function is being applied on its own
NoInput == [fn |-> "none"]

\* the requests of SpecConc: of each client a valid one and one with a url
\* that is not YouTube's
ConcRequests ==
    {req \in Requests : req.format = "mp3" /\ req.url # <<>> /\ Len(req.url) = 4}

\* the server after the module is loaded
InitServer ==
    /\ now = 0
    /\ rateLimits = <<>>
    /\ activeDownloads = {}
    /\ fileCleanupTimers = {}
    /\ pendingTimeouts = {}
    /\ nextId = 1
    /\ files = {}
    /\ proc = [j \in Ids |-> [st |-> "none", signalled |-> FALSE]]
    /\ stream = [j \in Ids |-> <<>>]
    /\ controller = [j \in Ids |-> "none"]
    /\ admitted = <<>>
    /\ cancelAcks = [j \in Ids |-> 0]
    /\ reads = {}
    /\ handlers = [req \in ConcRequests |-> [reading |-> 0, done |-> 0]]
    /\ received = [j \in Ids |-> <<>>]
    /\ outputs = <<>>

Init == InitServer /\ input = NoInput

----------------------------------------------------------------------------
(* Submit job *)

\* the status of the response to a submit request
PostStatus(req, limits, t) ==
    IF req.url = <<>> \/ req.format = "" THEN 400
    ELSE IF ~youtubeRegex(req.url) THEN 400
    ELSE IF ~checkRateLimit(limits, ClientIdOf(req.headers), t).admit THEN 429
    ELSE 200

\* a POST that publishes nothing when the job starts
InitialEvents_None(downloadId) == <<>>

\* the initial status POST enqueues right after the spawn
InitialEvents(downloadId) == <<Started(downloadId)>>

\* what no request handler writes but its own place in `handlers`
PostFrame == <<received, input, outputs, reads>>

\* a request arrives: the handler runs up to `await req.json()`
PostAwait(req) ==
    /\ handlers' = [handlers EXCEPT ![req].reading = @ + 1]
    /\ UNCHANGED <<now, rateLimits, activeDownloads, fileCleanupTimers,
                   pendingTimeouts, nextId, files, proc, stream, controller,
                   admitted, cancelAcks, PostFrame>>

\* a POST that asks the rate limiter before it validates the request
POST_LimitsFirst(req, limit) ==
    /\ nextId <= limit
    /\ UNCHANGED PostFrame
    /\ LET clientId == ClientIdOf(req.headers)
           r == checkRateLimit(rateLimits, clientId, now)
           downloadId == nextId
       IN  /\ rateLimits' = r.limits
           /\ IF \/ ~r.admit
                 \/ req.url = <<>> \/ req.format = "" \/ ~youtubeRegex(req.url)
              THEN UNCHANGED <<now, activeDownloads, fileCleanupTimers,
                               pendingTimeouts, nextId, files, proc, stream,
                               controller, admitted, cancelAcks>>
              ELSE /\ nextId' = nextId + 1
                   /\ proc' = [proc EXCEPT ![downloadId] =
                                 [st |-> "running", signalled |-> FALSE]]
                   /\ activeDownloads' = activeDownloads \cup {downloadId}
                   /\ stream' = [stream EXCEPT ![downloadId] = InitialEvents(downloadId)]
                   /\ controller' = [controller EXCEPT ![downloadId] = "open"]
                   /\ admitted' = Append(admitted, [clientId |-> clientId, at |-> now])
                   /\ UNCHANGED <<now, fileCleanupTimers, pendingTimeouts, files,
                                  cancelAcks>>

\* POST after `await req.json()`: validation, admission, spawn, registration,
\* 'started', in one run of the handler
POST(req, limit) ==
    /\ nextId <= limit
    /\ UNCHANGED PostFrame
    /\ IF req.url = <<>> \/ req.format = "" \/ ~youtubeRegex(req.url)
       THEN UNCHANGED <<now, rateLimits, activeDownloads, fileCleanupTimers,
                        pendingTimeouts, nextId, files, proc, stream, controller,
                        admitted, cancelAcks>>
       ELSE LET clientId == ClientIdOf(req.headers)
                r == checkRateLimit(rateLimits, clientId, now)
                downloadId == nextId
            IN  /\ rateLimits' = r.limits
                /\ IF ~r.admit
                   THEN UNCHANGED <<now, activeDownloads, fileCleanupTimers,
                                    pendingTimeouts, nextId, files, proc, stream,
                                    controller, admitted, cancelAcks>>
                   ELSE /\ nextId' = nextId + 1
                        /\ proc' = [proc EXCEPT ![downloadId] =
                                      [st |-> "running", signalled |-> FALSE]]
                        /\ activeDownloads' = activeDownloads \cup {downloadId}
                        /\ stream' = [stream EXCEPT ![downloadId] = InitialEvents(downloadId)]
                        /\ controller' = [controller EXCEPT ![downloadId] = "open"]
                        /\ admitted' = Append(admitted, [clientId |-> clientId, at |-> now])
                        /\ UNCHANGED <<now, fileCleanupTimers, pendingTimeouts, files,
                                       cancelAcks>>

\* the handler of a request whose body has arrived goes on
PostResume(req, limit) ==
    /\ handlers[req].reading > 0
    /\ handlers' = [handlers EXCEPT ![req] =
                        [reading |-> @.reading - 1, done |-> @.done + 1]]
    /\ POST(req, limit)

\* a request whose body is there when the handler asks for it
PostNow(req, limit) == POST(req, limit) /\ UNCHANGED handlers

\* time passes
Tick ==
    /\ now < MaxTicks * TickMs
    /\ now' = now + TickMs
    /\ UNCHANGED <<rateLimits, activeDownloads, fileCleanupTimers, pendingTimeouts,
                   nextId, files, proc, stream, controller, admitted,
                   cancelAcks, reads,
                   handlers, received, input, outputs>>

----------------------------------------------------------------------------
(* The external process and the consumer: the environment *)

Live(j) == proc[j].st = "running"

\* the downloader creates its output file <id>.mp3 and goes on writing it
ProcWrite(j) ==
    /\ Live(j) /\ ~proc[j].signalled
    /\ Prefixed(files, j) = {}
    /\ files' = files \cup {FileName(j, "mp3")}
    /\ UNCHANGED <<now, rateLimits, activeDownloads, fileCleanupTimers,
                   pendingTimeouts, nextId, proc, stream, controller,
                   admitted, cancelAcks, reads,
                   handlers, received, input, outputs>>

\* the process ends, by itself or by the signal; the server learns of it,
\* and of the exit code, only when 'close' is dispatched
ProcExit(j) ==
    /\ Live(j)
    /\ proc' = [proc EXCEPT ![j].st = "exited"]
    /\ UNCHANGED <<now, rateLimits, activeDownloads, fileCleanupTimers,
                   pendingTimeouts, nextId, files, stream, controller,
                   admitted, cancelAcks, reads,
                   handlers, received, input, outputs>>

\* a disconnect that also ends the downloader
Disconnect_Kills(j) ==
    /\ controller[j] = "open"
    /\ controller' = [controller EXCEPT ![j] = "cancelled"]
    /\ proc' = [proc EXCEPT ![j].signalled = @ \/ Live(j)]
    /\ UNCHANGED <<now, rateLimits, activeDownloads, fileCleanupTimers,
                   pendingTimeouts, nextId, files, stream,
                   admitted, cancelAcks, reads,
                   handlers, received, input, outputs>>

\* the consumer of the event stream goes away: the stream is cancelled
Disconnect(j) ==
    /\ controller[j] = "open"
    /\ controller' = [controller EXCEPT ![j] = "cancelled"]
    /\ UNCHANGED <<now, rateLimits, activeDownloads, fileCleanupTimers,
                   pendingTimeouts, nextId, files, proc, stream,
                   admitted, cancelAcks, reads,
                   handlers, received, input, outputs>>

----------------------------------------------------------------------------
(* Callbacks of a job.  controller.enqueue and controller.close throw once  *)
(* the stream is closed or cancelled; the throw ends the callback, and what *)
(* the callback did before it stays done.                                   *)

\* controller.enqueue(...) throws
Throws(j) == controller[j] # "open"

\* the pipes deliver data until 'close'; a process that never started has none
Piping(j) == proc[j].st \in {"running", "exited"}

\* ytDlpProcess.stdout.on('data')
StdoutData(j, lines) ==
    /\ Piping(j)
    /\ LET events == ChunkEvents(j, lines)
       IN  IF events = <<>> \/ Throws(j)
           THEN UNCHANGED stream
           ELSE /\ Len(stream[j]) + Len(events) <= MaxEvents
                /\ stream' = [stream EXCEPT ![j] = @ \o events]
    /\ UNCHANGED <<now, rateLimits, activeDownloads, fileCleanupTimers,
                   pendingTimeouts, nextId, files, proc, controller, admitted,
                   cancelAcks, reads,
                   handlers, input, outputs>>

\* the stdout lines of a chunk that match the pattern of parseProgress, each
\* with whether the stream could take its event
Matches(line) == Trimmed(line) /\ parseProgress(line) # <<>>

RECURSIVE Tagged(_, _)
Tagged(lines, open) ==
    IF lines = <<>> THEN <<>>
    ELSE (IF Matches(Head(lines)) THEN <<[line |-> Head(lines), open |-> open]>>
          ELSE <<>>) \o Tagged(Tail(lines), open)

\* the stdout callback, with the record of what it was given
Receive(j, lines) ==
    /\ Len(received[j]) + Len(Tagged(lines, TRUE)) <= MaxEvents
    /\ received' = [received EXCEPT ![j] = @ \o Tagged(lines, ~Throws(j))]
    /\ StdoutData(j, lines)

\* a stderr callback that publishes the error and leaves the stream open
StderrData_NoClose(j, errorLine) ==
    /\ Piping(j)
    /\ IF ~Includes(errorLine, <<"ERROR">>) \/ Throws(j)
       THEN UNCHANGED <<stream, activeDownloads>>
       ELSE /\ stream' = [stream EXCEPT ![j] = Append(@, Error(j, "Download failed: "))]
            /\ activeDownloads' = activeDownloads \ {j}
    /\ UNCHANGED <<now, rateLimits, fileCleanupTimers, pendingTimeouts, nextId,
                   files, proc, controller, admitted, cancelAcks, reads,
                   handlers, received, input, outputs>>

\* ytDlpProcess.stderr.on('data')
StderrData(j, errorLine) ==
    /\ Piping(j)
    /\ IF ~Includes(errorLine, <<"ERROR">>) \/ Throws(j)
       THEN UNCHANGED <<stream, controller, activeDownloads>>
       ELSE /\ stream' = [stream EXCEPT ![j] = Append(@, Error(j, "Download failed: "))]
            /\ controller' = [controller EXCEPT ![j] = "closed"]
            /\ activeDownloads' = activeDownloads \ {j}
    /\ UNCHANGED <<now, rateLimits, fileCleanupTimers, pendingTimeouts, nextId,
                   files, proc, admitted, cancelAcks, reads,
                   handlers, received, input, outputs>>

\* a callback that publishes its last event and forgets controller.close()
Finish_NoClose(j, event) ==
    IF Throws(j)
    THEN UNCHANGED <<stream, controller>>
    ELSE /\ stream' = [stream EXCEPT ![j] = Append(@, event)]
         /\ UNCHANGED controller

\* the last enqueue of a callback and controller.close(), or the throw
Finish(j, event) ==
    IF Throws(j)
    THEN UNCHANGED <<stream, controller>>
    ELSE /\ stream' = [stream EXCEPT ![j] = Append(@, event)]
         /\ controller' = [controller EXCEPT ![j] = "closed"]

\* the exit codes the 'close' callback can be called with
CloseCodes == {"0", "1", "null", "-2"}

\* the exit codes 'close' can report: -2 after a failed spawn, null after
\* the signal, else what the downloader returned
ExitCodes(j) ==
    IF proc[j].st = "failed" THEN {"-2"}
    ELSE IF proc[j].signalled THEN {"null"}
    ELSE {"0", "1"}

\* a 'close' callback that takes every exit for a success
OnClose_IgnoresCode(j, code) ==
    /\ proc[j].st \in {"exited", "failed"}
    /\ code \in ExitCodes(j)
    /\ proc' = [proc EXCEPT ![j].st = "closed"]
    /\ activeDownloads' = activeDownloads \ {j}
    /\ IF code \in CloseCodes
       THEN IF Prefixed(files, j) # {}
            THEN \E downloadedFile \in Prefixed(files, j) :
                   LET s == scheduleFileCleanup(fileCleanupTimers, pendingTimeouts,
                                                downloadedFile, j)
                   IN  /\ fileCleanupTimers' = s.timers
                       /\ pendingTimeouts' = s.timeouts
                       /\ Finish(j, Complete(j, downloadedFile.ext))
            ELSE /\ Finish(j, Error(j, "Downloaded file not found"))
                 /\ UNCHANGED <<fileCleanupTimers, pendingTimeouts>>
       ELSE /\ Finish(j, Error(j, "Download failed with code"))
            /\ UNCHANGED <<fileCleanupTimers, pendingTimeouts>>
    /\ UNCHANGED <<now, rateLimits, nextId, files, admitted, cancelAcks, reads,
                   handlers, received, input, outputs>>

\* a 'close' callback that leaves the job in the registry
OnClose_KeepsEntry(j, code) ==
    /\ proc[j].st \in {"exited", "failed"}
    /\ code \in ExitCodes(j)
    /\ proc' = [proc EXCEPT ![j].st = "closed"]
    /\ UNCHANGED activeDownloads
    /\ IF code = "0"
       THEN IF Prefixed(files, j) # {}
            THEN \E downloadedFile \in Prefixed(files, j) :
                   LET s == scheduleFileCleanup(fileCleanupTimers, pendingTimeouts,
                                                downloadedFile, j)
                   IN  /\ fileCleanupTimers' = s.timers
                       /\ pendingTimeouts' = s.timeouts
                       /\ Finish(j, Complete(j, downloadedFile.ext))
            ELSE /\ Finish(j, Error(j, "Downloaded file not found"))
                 /\ UNCHANGED <<fileCleanupTimers, pendingTimeouts>>
       ELSE /\ Finish(j, Error(j, "Download failed with code"))
            /\ UNCHANGED <<fileCleanupTimers, pendingTimeouts>>
    /\ UNCHANGED <<now, rateLimits, nextId, files, admitted, cancelAcks, reads,
                   handlers, received, input, outputs>>

\* ytDlpProcess.on('close')
OnClose(j, code) ==
    /\ proc[j].st \in {"exited", "failed"}
    /\ code \in ExitCodes(j)
    /\ proc' = [proc EXCEPT ![j].st = "closed"]
    /\ activeDownloads' = activeDownloads \ {j}
    /\ IF code = "0"
       THEN IF Prefixed(files, j) # {}
            THEN \E downloadedFile \in Prefixed(files, j) :
                   LET s == scheduleFileCleanup(fileCleanupTimers, pendingTimeouts,
                                                downloadedFile, j)
                   IN  /\ fileCleanupTimers' = s.timers
                       /\ pendingTimeouts' = s.timeouts
                       /\ Finish(j, Complete(j, downloadedFile.ext))
            ELSE /\ Finish(j, Error(j, "Downloaded file not found"))
                 /\ UNCHANGED <<fileCleanupTimers, pendingTimeouts>>
       ELSE /\ Finish(j, Error(j, "Download failed with code"))
            /\ UNCHANGED <<fileCleanupTimers, pendingTimeouts>>
    /\ UNCHANGED <<now, rateLimits, nextId, files, admitted, cancelAcks, reads,
                   handlers, received, input, outputs>>

\* ytDlpProcess.on('error'): the spawn failed; 'close' follows with code -2
OnError(j) ==
    /\ Live(j) /\ ~proc[j].signalled
    /\ stream[j] = <<Started(j)>> /\ Prefixed(files, j) = {}
    /\ j \in activeDownloads /\ controller[j] = "open"
    /\ proc' = [proc EXCEPT ![j].st = "failed"]
    /\ activeDownloads' = activeDownloads \ {j}
    /\ Finish(j, Error(j, "Failed to start download: "))
    /\ UNCHANGED <<now, rateLimits, fileCleanupTimers, pendingTimeouts, nextId,
                   files, admitted, cancelAcks, reads,
                   handlers, received, input, outputs>>

\* a timer callback that discards its entry and leaves the file
TimerFire_NoUnlink(t) ==
    /\ t \in pendingTimeouts
    /\ pendingTimeouts' = pendingTimeouts \ {t}
    /\ fileCleanupTimers' = fileCleanupTimers \ {t.downloadId}
    /\ UNCHANGED <<now, rateLimits, activeDownloads, nextId, files, proc, stream,
                   controller, admitted, cancelAcks, reads,
                   handlers, received, input, outputs>>

\* the callback of setTimeout in scheduleFileCleanup
TimerFire(t) ==
    /\ t \in pendingTimeouts
    /\ pendingTimeouts' = pendingTimeouts \ {t}
    /\ files' = files \ {t.filePath}
    /\ fileCleanupTimers' = fileCleanupTimers \ {t.downloadId}
    /\ UNCHANGED <<now, rateLimits, activeDownloads, nextId, proc, stream,
                   controller, admitted, cancelAcks, reads,
                   handlers, received, input, outputs>>

\* the callback of setTimeout when unlinkSync throws: the catch logs, and
\* fileCleanupTimers.delete, the statement after unlinkSync, is not reached
TimerFireUnlinkFails(t) ==
    /\ t \in pendingTimeouts
    /\ t.filePath \in files
    /\ pendingTimeouts' = pendingTimeouts \ {t}
    /\ UNCHANGED <<now, rateLimits, activeDownloads, fileCleanupTimers, nextId,
                   files, proc, stream, controller, admitted, cancelAcks, reads,
                   handlers, received, input, outputs>>

----------------------------------------------------------------------------
(* Cancel job and fetch artifact *)

\* the status of the response to a cancel request
DeleteStatus(registry, downloadId) ==
    IF downloadId \in registry THEN 200 ELSE 404

\* a cancel that signals the process without looking the job up
DELETE_Unchecked(downloadId) ==
    /\ proc' = [proc EXCEPT ![downloadId].signalled = @ \/ Live(downloadId)]
    /\ activeDownloads' = activeDownloads \ {downloadId}
    /\ UNCHANGED <<now, rateLimits, fileCleanupTimers, pendingTimeouts, nextId,
                   files, stream, controller, admitted, cancelAcks, reads,
                   handlers, received, input, outputs>>

\* a cancel that signals the process and leaves the job registered
DELETE_NoRemove(downloadId) ==
    IF downloadId \in activeDownloads
    THEN /\ proc' = [proc EXCEPT ![downloadId].signalled = @ \/ Live(downloadId)]
         /\ cancelAcks' = [cancelAcks EXCEPT ![downloadId] = @ + 1]
         /\ UNCHANGED <<now, rateLimits, activeDownloads, fileCleanupTimers,
                        pendingTimeouts, nextId, files, stream, controller,
                        admitted, reads,
                   handlers, received, input, outputs>>
    ELSE UNCHANGED vars

\* a cancel that signals every process that runs
DELETE_SignalsAll(downloadId) ==
    IF downloadId \in activeDownloads
    THEN /\ proc' = [j \in Ids |-> [proc[j] EXCEPT !.signalled = @ \/ Live(j)]]
         /\ activeDownloads' = activeDownloads \ {downloadId}
         /\ IF downloadId \in fileCleanupTimers
            THEN /\ pendingTimeouts' =
                        {t \in pendingTimeouts : t.downloadId # downloadId}
                 /\ fileCleanupTimers' = fileCleanupTimers \ {downloadId}
            ELSE UNCHANGED <<pendingTimeouts, fileCleanupTimers>>
         /\ cancelAcks' = [cancelAcks EXCEPT ![downloadId] = @ + 1]
         /\ UNCHANGED <<now, rateLimits, nextId, files, stream, controller,
                        admitted, reads,
                   handlers, received, input, outputs>>
    ELSE UNCHANGED vars

\* a cancel that gives the client its request back
DELETE_Refunds(downloadId) ==
    IF downloadId \in activeDownloads
    THEN /\ proc' = [proc EXCEPT ![downloadId].signalled = @ \/ Live(downloadId)]
         /\ activeDownloads' = activeDownloads \ {downloadId}
         /\ IF downloadId \in fileCleanupTimers
            THEN /\ pendingTimeouts' =
                        {t \in pendingTimeouts : t.downloadId # downloadId}
                 /\ fileCleanupTimers' = fileCleanupTimers \ {downloadId}
            ELSE UNCHANGED <<pendingTimeouts, fileCleanupTimers>>
         /\ cancelAcks' = [cancelAcks EXCEPT ![downloadId] = @ + 1]
         /\ rateLimits' = [rateLimits EXCEPT
                              ![admitted[downloadId].clientId].count = @ - 1]
         /\ UNCHANGED <<now, nextId, files, stream, controller,
                        admitted, reads,
                   handlers, received, input, outputs>>
    ELSE UNCHANGED vars

\* DELETE ?downloadId=...
DELETE(downloadId) ==
    IF downloadId \in activeDownloads
    THEN /\ proc' = [proc EXCEPT ![downloadId].signalled = @ \/ Live(downloadId)]
         /\ activeDownloads' = activeDownloads \ {downloadId}
         /\ IF downloadId \in fileCleanupTimers
            THEN /\ pendingTimeouts' =
                        {t \in pendingTimeouts : t.downloadId # downloadId}
                 /\ fileCleanupTimers' = fileCleanupTimers \ {downloadId}
            ELSE UNCHANGED <<pendingTimeouts, fileCleanupTimers>>
         /\ cancelAcks' = [cancelAcks EXCEPT ![downloadId] = @ + 1]
         /\ UNCHANGED <<now, rateLimits, nextId, files, stream, controller,
                        admitted, reads,
                   handlers, received, input, outputs>>
    ELSE UNCHANGED vars

\* the status of the response to a fetch of /<text>/<filename>: 200 with a
\* file's bytes, or 404; the filename is not looked at
FetchStatus(dir, text) == IF Found(dir, text) = {} THEN 404 ELSE 200

\* the status of the response to a fetch with the id of a job
GetStatus(dir, downloadId) ==
    IF Prefixed(dir, downloadId) = {} THEN 404 ELSE 200

\* the ids fetches come with: the ids of jobs, the first character of one,
\* and an id that was never issued
FetchIds == {Uuid(j) : j \in 1..MaxJobs} \cup {<<"a">>, <<"z", "9">>}

\* history: the job's `complete` event is published and its timer is pending
Retained(j) ==
    /\ \E i \in 1..Len(stream[j]) : stream[j][i].type = "complete"
    /\ \E t \in pendingTimeouts : t.downloadId = j

\* GET /api/download-file/<downloadId>/<filename>: 404, or the response whose
\* body is a read stream of the file found; createReadStream returns at once
\* and opens the file later.  `retained` tells when the fetch was made.
GET(downloadId) ==
    IF FetchStatus(files, downloadId) = 404
    THEN UNCHANGED vars
    ELSE \E actualFilename \in Found(files, downloadId) :
            /\ reads' = reads \cup {[filePath |-> actualFilename, st |-> "opening",
                                      retained |-> Retained(actualFilename.id)]}
            /\ UNCHANGED <<now, rateLimits, activeDownloads, fileCleanupTimers,
                           pendingTimeouts, nextId, files, proc, stream,
                           controller, admitted, cancelAcks,
                   handlers, received, input, outputs>>

\* the read stream opens its file: the body is the file's bytes, or the
\* stream ends with ENOENT after the 200 response was begun
ReadStreamOpen(r) ==
    /\ r \in reads /\ r.st = "opening"
    /\ reads' = (reads \ {r}) \cup
                 {[r EXCEPT !.st = IF r.filePath \in files THEN "bytes" ELSE "failed"]}
    /\ UNCHANGED <<now, rateLimits, activeDownloads, fileCleanupTimers,
                   pendingTimeouts, nextId, files, proc, stream, controller,
                   admitted, cancelAcks,
                   handlers, received, input, outputs>>

----------------------------------------------------------------------------
(* Range requests of the artifact server *)

\* parseInt of the tokens a Range header is made of: <<n>>, or <<>> for NaN
DigitValue == ("0" :> 0) @@ ("1" :> 1) @@ ("2" :> 2) @@ ("4" :> 4)

parseInt(token) ==
    IF token \in DOMAIN DigitValue THEN <<DigitValue[token]>> ELSE <<>>

\* range.replace(/bytes=/, '').split('-') of 'bytes=<a>-<b>', or no header
RangeHeaders ==
    {[present |-> FALSE, parts |-> <<"", "">>]} \cup
    {[present |-> TRUE, parts |-> <<a, b>>] :
        a \in DOMAIN DigitValue \cup {""}, b \in DOMAIN DigitValue \cup {""}}

\* the sizes of the artifacts fetched
SampleSizes == {3}

\* the bytes createReadStream(filePath, {start, end}) delivers
BytesRead(fileSize, start, end) ==
    Cardinality({k \in start..end : k < fileSize})

\* GET from the range header on: status, headers and the length of the body;
\* createReadStream throws on a start that is no integer and on start > end,
\* and the handler's catch answers 500
GetResponse(fileSize, range) ==
    IF range.present
    THEN LET start == parseInt(range.parts[1])
             end == IF range.parts[2] # "" THEN parseInt(range.parts[2])
                    ELSE <<fileSize - 1>>
         IN  IF start = <<>> \/ end = <<>> \/ end[1] < 0 \/ start[1] > end[1]
             THEN [status |-> 500, contentRange |-> <<>>, contentLength |-> 0,
                   body |-> 0]
             ELSE [status |-> 206,
                   contentRange |-> <<start[1], end[1], fileSize>>,
                   contentLength |-> (end[1] - start[1]) + 1,
                   body |-> BytesRead(fileSize, start[1], end[1])]
    ELSE [status |-> 200, contentRange |-> <<>>, contentLength |-> fileSize,
          body |-> BytesRead(fileSize, 0, fileSize - 1)]

----------------------------------------------------------------------------
(* The functions applied on their own *)

OverLine == <<"[download]", " ", "250.0%", " ", "of", " ", "3.42MiB", " ",
              "at", " ", "1.00MiB/s", " ", "ETA", " ", "00:02">>
ZeroLine == <<"[download]", "  ", "0.0%", " ", "of", " ", "~3.42MiB", " ",
              "at", " ", "Unknown", " ", "ETA", " ", "Unknown">>
LastLine == <<"[download]", " ", "100%", " ", "of", " ", "3.42MiB", " ",
              "at", " ", "1.00MiB/s", " ", "ETA", " ", "00:00">>
NoEtaLine == <<"[download]", " ", "50.0%", " ", "of", " ", "3.42MiB", " ",
               "at", " ", "1.00MiB/s">>
GluedLine == <<"[download]", "50.0%", " ", "of", " ", "3.42MiB", " ",
               "at", " ", "1.00MiB/s", " ", "ETA", " ", "00:02">>

SampleLines ==
    {ProgressLine, FinishedLine, AlreadyLine, InfoLine, BlankLine, OverLine,
     ZeroLine, LastLine, NoEtaLine, GluedLine,
     <<"\r">> \o ProgressLine, InfoLine \o <<" ">> \o ProgressLine,
     ProgressLine \o <<" ">> \o OverLine}

\* the arguments: a line for parseProgress, a size and a Range header for
\* GET, a job id and the files found for scheduleFileCleanup
Inputs ==
    {[fn |-> "parseProgress", line |-> l] : l \in SampleLines}
    \cup {[fn |-> "GET", fileSize |-> n, range |-> r] :
              n \in SampleSizes, r \in RangeHeaders}
    \cup {[fn |-> "scheduleFileCleanup", downloadId |-> j,
           paths |-> {FileName(j, "mp3"), FileName(j, "webm")}] : j \in {1}}

InitPure == InitServer /\ input \in Inputs

PureFrame ==
    <<now, rateLimits, activeDownloads, fileCleanupTimers, pendingTimeouts,
      nextId, files, proc, stream, controller, admitted, cancelAcks, reads,
      handlers, received, input>>

ApplyParse ==
    /\ input.fn = "parseProgress" /\ Len(outputs) < MaxCalls
    /\ outputs' = Append(outputs, parseProgress(input.line))
    /\ UNCHANGED PureFrame

ApplyRange ==
    /\ input.fn = "GET" /\ Len(outputs) < MaxCalls
    /\ outputs' = Append(outputs, GetResponse(input.fileSize, input.range))
    /\ UNCHANGED PureFrame

\* scheduleFileCleanup for a job id, again on what the last call left
ApplySchedule ==
    /\ input.fn = "scheduleFileCleanup" /\ Len(outputs) < MaxCalls
    /\ \E filePath \in input.paths :
          LET before == IF outputs = <<>> THEN [timers |-> {}, timeouts |-> {}]
                        ELSE outputs[Len(outputs)]
          IN  outputs' = Append(outputs,
                                scheduleFileCleanup(before.timers, before.timeouts,
                                                    filePath, input.downloadId))
    /\ UNCHANGED PureFrame

----------------------------------------------------------------------------
(* Spec: the whole life of the jobs of one client, inside one rate-limit    *)
(* window.  The downloader keeps one output file per job, a signalled       *)
(* downloader ends with code null, and unlinkSync succeeds.  A fetch reads  *)
(* the directory and writes nothing a job reads, so Spec tells its answer   *)
(* by GetStatus and leaves the read streams to SpecFiles.                   *)
(* SpecRate: the requests of two clients over several windows; the          *)
(* downloaders it starts have produced nothing yet.                         *)
(* SpecFiles: the artifact directory.  The jobs of Spec without the output  *)
(* of their downloaders, the fetches with their read streams, and the timer *)
(* callback also when unlinkSync fails.                                     *)
(* SpecConc: request handlers of two clients suspended at `await            *)
(* req.json()` and resumed in any order, inside one window.                 *)
(* SpecPublish: the event stream of the jobs of Spec, with the record of    *)
(* the matching lines stdout delivered; no files, no cancel.                *)
(* SpecJobs: the jobs of two clients side by side, from the submit to the   *)
(* cleanup timer, without the output of their downloaders.                  *)
(* SpecLive: the jobs of Spec with progress lines as their only output on   *)
(* stdout, under the assumption that every downloader that was spawned ends *)
(* or fails to start, and with the event loop of Node, which runs the       *)
(* 'close' callback of a process that has ended.                            *)
(* SpecPure: parseProgress, the range handling of GET and                   *)
(* scheduleFileCleanup, each applied to an argument drawn in the initial    *)
(* state, MaxCalls times in a row.                                          *)

Jobs == 1..MaxJobs

\* the requests of one client
JobRequests == {req \in Requests : req.headers.xff # ""}

Next ==
    \/ \E req \in JobRequests : PostNow(req, MaxJobs)
    \/ \E j \in Jobs : ProcWrite(j)
    \/ \E j \in Jobs : ProcExit(j)
    \/ \E j \in Jobs : Disconnect(j)
    \/ \E j \in Jobs, lines \in StdoutChunks :
          StdoutData(j, lines) /\ UNCHANGED received
    \/ \E j \in Jobs, errorLine \in StderrChunks : StderrData(j, errorLine)
    \/ \E j \in Jobs, code \in CloseCodes : OnClose(j, code)
    \/ \E j \in Jobs : OnError(j)
    \/ \E t \in pendingTimeouts : TimerFire(t)
    \/ \E downloadId \in Jobs : DELETE(downloadId)

Spec == Init /\ [][Next]_vars

Submit == \E req \in Requests : PostNow(req, MaxRequests)

NextRate == Submit \/ Tick

SpecRate == Init /\ [][NextRate]_vars

NextFiles ==
    \/ \E req \in JobRequests : PostNow(req, MaxJobs)
    \/ \E j \in Jobs : ProcWrite(j)
    \/ \E j \in Jobs : ProcExit(j)
    \/ \E j \in Jobs : Disconnect(j)
    \/ \E j \in Jobs, code \in CloseCodes : OnClose(j, code)
    \/ \E t \in pendingTimeouts : TimerFire(t)
    \/ \E t \in pendingTimeouts : TimerFireUnlinkFails(t)
    \/ \E downloadId \in Jobs : DELETE(downloadId)
    \/ \E downloadId \in FetchIds : GET(downloadId)
    \/ \E r \in reads : ReadStreamOpen(r)

SpecFiles == Init /\ [][NextFiles]_vars

RECURSIVE HandlersOf(_, _)
\* the handlers started for the requests of a set, suspended or done
HandlersOf(reqs, h) ==
    IF reqs = {} THEN 0
    ELSE LET req == CHOOSE x \in reqs : TRUE
         IN  h[req].reading + h[req].done + HandlersOf(reqs \ {req}, h)

NextConc ==
    \/ \E req \in ConcRequests :
          HandlersOf(ConcRequests, handlers) < MaxHandlers /\ PostAwait(req)
    \/ \E req \in ConcRequests : PostResume(req, MaxRequests)

SpecConc == Init /\ [][NextConc]_vars

\* the chunks of SpecPublish: two matching lines in one chunk, the last
\* progress line, which carries the 100% marker, a line with a marker and no
\* record, and a line with neither
PublishChunks ==
    {<<ZeroLine, ProgressLine>>, <<LastLine>>, <<FinishedLine>>, <<InfoLine>>}

NextPublish ==
    \/ \E req \in JobRequests : PostNow(req, MaxJobs)
    \/ \E j \in Jobs : ProcExit(j)
    \/ \E j \in Jobs : Disconnect(j)
    \/ \E j \in Jobs, lines \in PublishChunks : Receive(j, lines)
    \/ \E j \in Jobs, errorLine \in StderrChunks : StderrData(j, errorLine)
    \/ \E j \in Jobs, code \in CloseCodes : OnClose(j, code)

SpecPublish == Init /\ [][NextPublish]_vars

Together == 1..MaxTogether

\* one valid request of each client
ClientRequests ==
    {req \in Requests : req.format = "mp3" /\ Len(req.url) = 4 /\ req.url[2] = "youtu.be"}

NextJobs ==
    \/ \E req \in ClientRequests : PostNow(req, MaxTogether)
    \/ \E j \in Together : ProcWrite(j)
    \/ \E j \in Together : ProcExit(j)
    \/ \E j \in Together, code \in CloseCodes : OnClose(j, code)
    \/ \E t \in pendingTimeouts : TimerFire(t)
    \/ \E downloadId \in Together : DELETE(downloadId)

SpecJobs == Init /\ [][NextJobs]_vars

NextLive ==
    \/ \E req \in JobRequests : PostNow(req, MaxJobs)
    \/ \E j \in Jobs : ProcWrite(j)
    \/ \E j \in Jobs : ProcExit(j)
    \/ \E j \in Jobs : Disconnect(j)
    \/ \E j \in Jobs : StdoutData(j, <<ProgressLine>>) /\ UNCHANGED received
    \/ \E j \in Jobs, errorLine \in StderrChunks : StderrData(j, errorLine)
    \/ \E j \in Jobs, code \in CloseCodes : OnClose(j, code)
    \/ \E j \in Jobs : OnError(j)
    \/ \E t \in pendingTimeouts : TimerFire(t)
    \/ \E downloadId \in Jobs : DELETE(downloadId)

\* every process ends or fails to start, and its 'close' is dispatched
Fairness ==
    \A j \in Jobs :
        /\ WF_vars(ProcExit(j) \/ OnError(j))
        /\ WF_vars(\E code \in CloseCodes : OnClose(j, code))

SpecLive == Init /\ [][NextLive]_vars /\ Fairness

NextPure == ApplyParse \/ ApplyRange \/ ApplySchedule

SpecPure == InitPure /\ [][NextPure]_vars

----------------------------------------------------------------------------
(* Properties *)

\* the positions of a job's stream that hold an event of one of the types
Positions(j, types) == {i \in 1..Len(stream[j]) : stream[j][i].type \in types}

Terminal == {"complete", "error"}

\* the admissions of a client at the instants from..to
Admissions(clientId, from, to) ==
    {k \in 1..Len(admitted) :
        /\ admitted[k].clientId = clientId
        /\ from <= admitted[k].at /\ admitted[k].at <= to}

\* a valid request of a client
ValidRequest(headers) ==
    [url |-> <<"https://", "youtu.be", "/", "abc123">>, format |-> "mp3",
     headers |-> headers]

\* C1 as stated: no interval of one hour, wherever it starts, holds more than
\* 5 admitted requests of one client.  (An interval that holds 6 holds 6 from
\* the instant of its first one on.)
C1_RollingHourLimit ==
    \A k \in 1..Len(admitted) :
        Cardinality(Admissions(admitted[k].clientId, admitted[k].at,
                               admitted[k].at + WINDOW_MS - 1))
            <= MAX_DOWNLOADS_PER_HOUR

\* C1 amended: in each client's window, from the request that opened it to
\* its expiry one hour later, the admitted requests are the window's count,
\* at most 5, and once they are 5 a further request in the window is rejected.
C1_FixedWindowLimit ==
    \A c \in DOMAIN rateLimits :
        LET w == rateLimits[c]
            n == Cardinality(Admissions(c, w.resetTime - WINDOW_MS, w.resetTime))
        IN  /\ n = w.count
            /\ n <= MAX_DOWNLOADS_PER_HOUR
            /\ (n = MAX_DOWNLOADS_PER_HOUR /\ now <= w.resetTime)
                  => \A h \in SampleHeaders :
                        ClientIdOf(h) = c
                            => PostStatus(ValidRequest(h), rateLimits, now) = 429

\* C1 witness: a client used its 5 requests and, at the last instant of the
\* window, the next one is answered 429
C1_Witness ==
    \E h \in SampleHeaders :
        /\ ClientIdOf(h) \in DOMAIN rateLimits
        /\ rateLimits[ClientIdOf(h)].count = MAX_DOWNLOADS_PER_HOUR
        /\ now = rateLimits[ClientIdOf(h)].resetTime
        /\ Cardinality(Admissions(ClientIdOf(h), 0, now)) = MAX_DOWNLOADS_PER_HOUR
        /\ PostStatus(ValidRequest(h), rateLimits, now) = 429

\* C2 as stated: a job whose cancel was acknowledged has no `complete` event
\* on its stream and no cleanup timer
C2_CancelledNeverCompletes ==
    \A j \in Ids :
        cancelAcks[j] >= 1 =>
            /\ Positions(j, {"complete"}) = {}
            /\ j \notin fileCleanupTimers
            /\ \A t \in pendingTimeouts : t.downloadId # j

\* C3 as stated: once a job's cancel is acknowledged, no step publishes a
\* `progress` or an `error` event on its stream
C3_SilentAfterCancel ==
    [][\A j \in Ids :
          cancelAcks[j] >= 1 =>
              \A i \in (Len(stream[j]) + 1)..Len(stream'[j]) :
                  stream'[j][i].type \notin {"progress", "error"}]_vars

\* C4: a job whose cancel was acknowledged is out of the registry from that
\* step on, also while its process lives, and any further cancel of it is
\* answered 'not found': it is acknowledged once only
C4_CancelRemoves ==
    \A j \in Ids :
        cancelAcks[j] >= 1 =>
            /\ j \notin activeDownloads
            /\ DeleteStatus(activeDownloads, j) = 404
            /\ cancelAcks[j] = 1

\* C4 witness: the cancel is acknowledged, the process has not yet exited, and
\* a second cancel gets 404
C4_Witness ==
    \E j \in Ids :
        /\ cancelAcks[j] = 1
        /\ Live(j) /\ proc[j].signalled
        /\ DeleteStatus(activeDownloads, j) = 404

C6_NoFetchBeforeComplete ==
    \A j \in Ids :
        Positions(j, {"complete"}) = {} => GetStatus(files, j) = 404

\* C7: the stream of every admitted job begins with the one `started` event
\* of that job, and no job that was not admitted has any event
C7_StartedOnceAndFirst ==
    \A j \in Ids :
        IF j < nextId
        THEN /\ Positions(j, {"started"}) = {1}
             /\ stream[j][1] = Started(j)
        ELSE stream[j] = <<>>

\* C7 witness: a stream on which progress, processing and the terminal event
\* followed `started`
C7_Witness ==
    \E j \in Ids :
        /\ Positions(j, {"started"}) = {1}
        /\ Positions(j, {"progress"}) # {}
        /\ Positions(j, {"processing"}) # {}
        /\ Positions(j, Terminal) # {}

\* C8 as stated: `processing` is published at most once per job
C8_ProcessingAtMostOnce ==
    \A j \in Ids : Cardinality(Positions(j, {"processing"})) <= 1

\* C9 as stated: a job that was not cancelled and whose process has
\* terminated has exactly one terminal event on its stream
C9_ExactlyOneTerminal ==
    \A j \in Ids :
        (proc[j].st = "closed" /\ cancelAcks[j] = 0)
            => Cardinality(Positions(j, Terminal)) = 1

\* C9 amended: no stream ever holds two terminal events; and a job that was
\* not cancelled, whose process has terminated and whose consumer did not
\* disconnect, has exactly one
C9_OneTerminalWhileConnected ==
    \A j \in Ids :
        /\ Cardinality(Positions(j, Terminal)) <= 1
        /\ (proc[j].st = "closed" /\ cancelAcks[j] = 0 /\ controller[j] # "cancelled")
              => Cardinality(Positions(j, Terminal)) = 1

\* C9 witness: the spawn failed, `error` was published by the 'error'
\* callback, and 'close' followed with its own error to report
C9_Witness ==
    \E j \in Ids :
        /\ proc[j].st = "closed" /\ cancelAcks[j] = 0
        /\ stream[j] = <<Started(j), Error(j, "Failed to start download: ")>>

\* C10: a terminal event is the last event of its stream
C10_TerminalIsLast ==
    \A j \in Ids :
        \A i \in Positions(j, Terminal) : i = Len(stream[j])

\* C10 witness: `error` was published from stderr after a progress event while
\* the process runs on, so further callbacks of the job are still to come
C10_Witness ==
    \E j \in Ids :
        /\ Piping(j)
        /\ Positions(j, {"progress"}) # {}
        /\ Positions(j, {"error"}) = {Len(stream[j])}

\* C11: a submit request that is answered 400 or 429 issues no job id, spawns
\* no process, publishes nothing and leaves activeDownloads, the cleanup
\* timers and every client's count and resetTime as they were; the job ids
\* issued are exactly the admitted requests
C11_RejectedCreatesNoJob ==
    /\ [](/\ nextId = Len(admitted) + 1
          /\ \A j \in Ids : proc[j].st # "none" <=> j < nextId)
    /\ [][\A req \in Requests :
            (PostStatus(req, rateLimits, now) # 200 /\ POST(req, MaxRequests))
                => UNCHANGED <<nextId, proc, activeDownloads, fileCleanupTimers,
                               pendingTimeouts, rateLimits, stream, controller>>]_vars

\* C11 witness: five jobs of a client run, its window is full and not
\* expired, and its next valid request is answered 429
C11_Witness ==
    \E h \in SampleHeaders :
        /\ PostStatus(ValidRequest(h), rateLimits, now) = 429
        /\ now < rateLimits[ClientIdOf(h)].resetTime
        /\ nextId = MAX_DOWNLOADS_PER_HOUR + 1
        /\ activeDownloads = 1..MAX_DOWNLOADS_PER_HOUR
        /\ \E req \in Requests : PostStatus(req, rateLimits, now) = 400

\* C12: while an id is not in the registry, a cancel of it is answered
\* 'not found', and no step signals its process, acknowledges a cancel of it
\* or clears a timer of it (a timer of it that ends has fired: its file is
\* gone); only a submit changes rateLimits; and the step that acknowledges a
\* cancel leaves the id out of the registry, so that a repeated cancel is
\* that no-op
C12_UnknownCancelIsNoOp ==
    [][/\ nextId' = nextId => rateLimits' = rateLimits
       /\ \A d \in Ids :
            /\ d \notin activeDownloads =>
                  /\ DeleteStatus(activeDownloads, d) = 404
                  /\ proc'[d].signalled = proc[d].signalled
                  /\ cancelAcks'[d] = cancelAcks[d]
                  /\ \A t \in pendingTimeouts \ pendingTimeouts' :
                        t.downloadId = d => t.filePath \notin files'
            /\ cancelAcks'[d] # cancelAcks[d] =>
                  /\ d \notin activeDownloads'
                  /\ DeleteStatus(activeDownloads', d) = 404]_vars

\* C12 witness: a job that was cancelled once and whose cleanup timer is
\* pending: a further cancel is answered 'not found' and leaves the timer
C12_Witness ==
    \E j \in Ids :
        /\ cancelAcks[j] = 1
        /\ j \in fileCleanupTimers
        /\ DeleteStatus(activeDownloads, j) = 404

\* C13 as stated: a job with an `error` event on its stream is out of the
\* registry and has no cleanup timer
C13_NoTimerAfterError ==
    \A j \in Ids :
        Positions(j, {"error"}) # {} =>
            /\ j \notin activeDownloads
            /\ j \notin fileCleanupTimers
            /\ \A t \in pendingTimeouts : t.downloadId # j

\* C14: a job whose consumer disconnected and that nobody cancelled is not
\* signalled, is in the registry exactly until 'close' is dispatched, and a
\* 'close' with code 0 that finds the job's file schedules its cleanup timer
C14_DisconnectLeavesJobRunning ==
    /\ [](\A j \in Ids :
            (controller[j] = "cancelled" /\ cancelAcks[j] = 0) =>
                /\ ~proc[j].signalled
                /\ j \in activeDownloads <=> proc[j].st \in {"running", "exited"}
                /\ j \notin activeDownloads <=> proc[j].st = "closed")
    /\ [][\A j \in Ids :
            (/\ controller[j] = "cancelled" /\ cancelAcks[j] = 0
             /\ Prefixed(files, j) # {}
             /\ OnClose(j, "0"))
                => /\ j \in fileCleanupTimers'
                   /\ \E t \in pendingTimeouts' \ pendingTimeouts :
                         t.downloadId = j /\ t.filePath \in Prefixed(files, j)]_vars

\* C14 witness: the consumer left, the downloader ended with code 0 and the
\* timer of its file is pending, with no `complete` event to tell of it
C14_Witness ==
    \E j \in Ids :
        /\ controller[j] = "cancelled" /\ cancelAcks[j] = 0
        /\ proc[j].st = "closed" /\ ~proc[j].signalled
        /\ j \in fileCleanupTimers /\ j \notin activeDownloads
        /\ Positions(j, {"complete"}) = {}

\* C15 as stated: no callback runs into a stream that is no longer open; the
\* 'close' callback enqueues or closes on every path, so no step is a 'close'
\* callback of a job whose stream is closed or cancelled
C15_NoCallbackThrows ==
    [][\A j \in Ids, code \in CloseCodes : OnClose(j, code) => ~Throws(j)]_vars

\* C16 as stated: a fetch ends with the file's bytes or with 'not found'; no
\* response that was begun with status 200 has a body that cannot be read
C16_FetchBytesOrNotFound ==
    \A r \in reads : r.st # "failed"

\* C17 as stated: a cleanup timer that has fired has removed the job's entry
\* from fileCleanupTimers whatever became of the file, so every entry of
\* fileCleanupTimers has its timer pending
C17_FiredTimerRemovesEntry ==
    \A j \in fileCleanupTimers : \E t \in pendingTimeouts : t.downloadId = j

\* C18 as stated, in its finite form: a file of a job whose process has
\* ended is deleted or has its deletion pending; nothing schedules a
\* deletion for a job after its 'close' callback
C18_EveryFileIsCleaned ==
    \A f \in files :
        proc[f.id].st = "closed" => \E t \in pendingTimeouts : t.filePath = f

\* C19 as stated: a `complete` event on a stream comes after a `processing`
\* event of that stream
C19_ProcessingBeforeComplete ==
    \A j \in Ids :
        \A i \in Positions(j, {"complete"}) :
            \E k \in Positions(j, {"processing"}) : k < i

\* the window a request arriving at instant t opens
FreshWindow(t) == [count |-> 1, resetTime |-> t + WINDOW_MS]

\* C20: every client's count is between 1 and 5; a client's entry stays, and
\* while its resetTime stays its count does not decrease; its resetTime
\* changes only by a request arriving after it, which opens the window
\* [count 1, expiry = arrival + 1 hour]; and a valid request arriving after
\* the expiry is admitted and opens that window, whatever the count was
C20_WindowCount ==
    /\ [](\A c \in DOMAIN rateLimits :
            /\ rateLimits[c].count \in 1..MAX_DOWNLOADS_PER_HOUR
            /\ now > rateLimits[c].resetTime =>
                  \A h \in SampleHeaders :
                      ClientIdOf(h) = c =>
                          PostStatus(ValidRequest(h), rateLimits, now) = 200)
    /\ [][\A c \in DOMAIN rateLimits :
            /\ c \in DOMAIN rateLimits'
            /\ rateLimits'[c].resetTime = rateLimits[c].resetTime
                  => rateLimits'[c].count >= rateLimits[c].count
            /\ rateLimits'[c].resetTime # rateLimits[c].resetTime
                  => /\ now > rateLimits[c].resetTime
                     /\ rateLimits'[c] = FreshWindow(now)
            /\ \A h \in SampleHeaders :
                  (/\ ClientIdOf(h) = c
                   /\ now > rateLimits[c].resetTime
                   /\ POST(ValidRequest(h), MaxRequests))
                      => /\ rateLimits'[c] = FreshWindow(now)
                         /\ nextId' = nextId + 1
                         /\ admitted' = Append(admitted, [clientId |-> c, at |-> now])]_vars

\* C20 witness: a client used the 5 requests of its first window, and its
\* sixth request, arriving after the expiry, was admitted and opened a window
C20_Witness ==
    \E c \in DOMAIN rateLimits :
        /\ now > WINDOW_MS
        /\ rateLimits[c] = FreshWindow(now)
        /\ Cardinality(Admissions(c, 0, WINDOW_MS)) = MAX_DOWNLOADS_PER_HOUR
        /\ Cardinality(Admissions(c, now, now)) = 1

\* the valid requests of a client whose handlers have run to their end
Handled(c) ==
    LET mine == {req \in ConcRequests :
                    ClientIdOf(req.headers) = c /\ youtubeRegex(req.url)}
        done == [req \in ConcRequests |-> [reading |-> 0, done |-> handlers[req].done]]
    IN  HandlersOf(mine, done)

\* C21: whatever the order in which the suspended handlers of a client's
\* requests resume inside one window, the admitted ones are min(N, 5) of the
\* N valid requests handled so far, and the window's count is their number
C21_AtomicAdmission ==
    \A h \in SampleHeaders :
        LET c == ClientIdOf(h)
            n == Cardinality(Admissions(c, 0, now))
        IN  /\ n = (IF Handled(c) < MAX_DOWNLOADS_PER_HOUR
                    THEN Handled(c) ELSE MAX_DOWNLOADS_PER_HOUR)
            /\ IF c \in DOMAIN rateLimits THEN rateLimits[c].count = n ELSE n = 0

\* C21 witness: more than 5 handlers of one client were suspended together,
\* 5 were admitted, one was rejected and one is still suspended
C21_Witness ==
    \E req \in ConcRequests :
        LET c == ClientIdOf(req.headers)
        IN  /\ youtubeRegex(req.url)
            /\ handlers[req].reading >= 1
            /\ Handled(c) > MAX_DOWNLOADS_PER_HOUR
            /\ Cardinality(Admissions(c, 0, now)) = MAX_DOWNLOADS_PER_HOUR

\* the results of parseProgress in SpecPure
Parsed == IF input.fn = "parseProgress" THEN outputs ELSE <<>>

\* the pattern '[download] <pct>% of <size> at <speed> ETA <eta>' begins at
\* token i of the line
PatternAt(line, i) ==
    /\ i + 14 <= Len(line)
    /\ <<line[i], line[i + 4], line[i + 8], line[i + 12]>>
          = <<"[download]", "of", "at", "ETA">>
    /\ line[i + 2] \in DOMAIN PctValue
    /\ \A k \in 0..14 : (line[i + k] \in WS) <=> (k % 2 = 1)

C24_RangeLengths ==
    input.fn = "GET" =>
        \A k \in 1..Len(outputs) :
            /\ outputs[k].contentLength = outputs[k].body
            /\ IF input.range.present
               THEN /\ outputs[k].status = 206
                    /\ Len(outputs[k].contentRange) = 3
                    /\ outputs[k].contentRange[3] = input.fileSize
               ELSE outputs[k].status = 200 /\ outputs[k].body = input.fileSize

C26_PercentageRange ==
    \A k \in 1..Len(Parsed) :
        Parsed[k] # <<>> =>
            Parsed[k][1].percentage >= 0 /\ Parsed[k][1].percentage <= 100

\* C23 as stated: a job that was not cancelled is in the registry for as
\* long as its process is running
C23_RegisteredWhileRunning ==
    \A j \in Ids :
        (Live(j) /\ cancelAcks[j] = 0) => j \in activeDownloads

\* the events a step appends to the stream of a job
Appended(j) == SubSeq(stream'[j], Len(stream[j]) + 1, Len(stream'[j]))

\* a step appends one event, of this type, to the stream of a job
Published(j, type) == Len(Appended(j)) = 1 /\ Appended(j)[1].type = type

\* the exit was with code 0 and a file of the job is in the directory
ZeroWithFile(j, code) == code = "0" /\ Prefixed(files, j) # {}

C29_NoProgressAfterProcessing ==
    \A j \in Ids :
        \A i \in Positions(j, {"processing"}), k \in Positions(j, {"progress"}) :
            k < i

\* the `progress` events of a stream, in their order
ProgressOn(events) == SelectSeq(events, LAMBDA e : e.type = "progress")

\* the `progress` events of matching lines, in the order of the lines
RECURSIVE ProgressOf(_, _)
ProgressOf(j, lines) ==
    IF lines = <<>> THEN <<>>
    ELSE <<Progress(j, parseProgress(Head(lines).line)[1])>>
         \o ProgressOf(j, Tail(lines))

\* C28 as stated: the `progress` events of a job's stream are those of the
\* matching stdout lines received, one per line and in their order
C28_ProgressInLineOrder ==
    \A j \in Ids : ProgressOn(stream[j]) = ProgressOf(j, received[j])

\* C28 amended: the `progress` events of a job's stream are those of the
\* matching stdout lines received while the stream was open, one per line
\* and in their order; and a step that receives no stdout line, a stderr
\* callback among them, leaves the `progress` events as they are
C28_ProgressInLineOrderWhileOpen ==
    /\ [](\A j \in Ids :
            ProgressOn(stream[j])
                = ProgressOf(j, SelectSeq(received[j], LAMBDA r : r.open)))
    /\ [][\A j \in Ids :
            received'[j] = received[j]
                => ProgressOn(stream'[j]) = ProgressOn(stream[j])]_vars

\* C28 witness: two matching lines of one chunk were published in their
\* order, and a third one came after the stream was closed or cancelled
C28_Witness ==
    \E j \in Ids :
        /\ Len(received[j]) = 3
        /\ received[j][1].open /\ received[j][2].open /\ ~received[j][3].open
        /\ received[j][1].line # received[j][2].line
        /\ Len(ProgressOn(stream[j])) = 2

\* the jobs started for a client since its window began: admitted in the
\* window, process spawned, `started` published
JobsStarted(c) ==
    {j \in 1..(nextId - 1) :
        /\ admitted[j].clientId = c
        /\ admitted[j].at >= rateLimits[c].resetTime - WINDOW_MS
        /\ proc[j].st # "none"
        /\ Positions(j, {"started"}) = {1}}

Invalid(req) == req.url = <<>> \/ req.format = "" \/ ~youtubeRegex(req.url)

\* C31: a request without url or format, or with a url that is not YouTube's,
\* is answered 400 whatever the limiter holds, and the run of its handler
\* leaves every client's count and resetTime, the job ids and the admissions
\* as they were
C31_InvalidUsesNoQuota ==
    /\ [](\A req \in Requests :
            Invalid(req) => PostStatus(req, rateLimits, now) = 400)
    /\ [][\A req \in ConcRequests :
            (Invalid(req) /\ handlers'[req].done # handlers[req].done)
                => UNCHANGED <<rateLimits, nextId, admitted>>]_vars

\* C31 witness: the handler of an invalid request of a client ran to its
\* end inside the client's window, and the window's count is the number of
\* the client's valid requests, fewer than 5
C31_Witness ==
    \E req \in ConcRequests :
        LET c == ClientIdOf(req.headers)
        IN  /\ Invalid(req) /\ handlers[req].done >= 1
            /\ c \in DOMAIN rateLimits
            /\ rateLimits[c].count = Handled(c)
            /\ rateLimits[c].count < MAX_DOWNLOADS_PER_HOUR
            /\ now <= rateLimits[c].resetTime

\* C32: the id a submit issues was never used: no process, event, file or
\* timer bears it; the ids are distinct texts, and the names that start with
\* a job's id are the names made of it; a file appears under the id of a
\* process that runs, and disappears only by the timer scheduled for it; a
\* timer is for a file of its own job; and the `complete` event of a job
\* names a file of that job, for which the step schedules the timer
C32_NoCollision ==
    /\ []( /\ \A j \in Ids :
                /\ j >= nextId =>
                      /\ proc[j].st = "none" /\ stream[j] = <<>>
                      /\ Prefixed(files, j) = {}
                      /\ \A t \in pendingTimeouts : t.downloadId # j
                /\ Found(files, Uuid(j)) = Prefixed(files, j)
                /\ \A k \in Ids \ {j} :
                      Uuid(k) # Uuid(j) /\ Found(files, Uuid(j)) \cap Prefixed(files, k) = {}
           /\ \A t \in pendingTimeouts : t.filePath.id = t.downloadId)
    /\ [][ /\ nextId' >= nextId
           /\ \A j \in Ids :
                (proc[j].st = "none" /\ proc'[j].st # "none")
                    => j = nextId /\ nextId' = j + 1
           /\ \A f \in files' \ files : Live(f.id)
           /\ \A f \in files \ files' :
                \E t \in pendingTimeouts \ pendingTimeouts' :
                    t.downloadId = f.id /\ t.filePath = f
           /\ \A j \in Ids :
                Published(j, "complete") =>
                    /\ Appended(j)[1].downloadId = j
                    /\ \E f \in Prefixed(files, j) :
                          /\ Appended(j)[1].filename = f.ext
                          /\ \E t \in pendingTimeouts' \ pendingTimeouts :
                                t.downloadId = j /\ t.filePath = f]_vars

\* C32 witness: two jobs completed, each with its file; the timer of one has
\* fired, and the file of the other is still there with its timer pending
C32_Witness ==
    \E a \in Ids, b \in Ids :
        /\ a # b
        /\ Positions(a, {"complete"}) # {} /\ Positions(b, {"complete"}) # {}
        /\ Prefixed(files, a) = {} /\ \A t \in pendingTimeouts : t.downloadId # a
        /\ Prefixed(files, b) # {}
        /\ \E t \in pendingTimeouts : t.downloadId = b /\ t.filePath \in files

\* what belongs to a job: its registry entry, process, stream, timer and files
JobView(j) ==
    <<j \in activeDownloads, proc[j], stream[j], controller[j],
      j \in fileCleanupTimers, {t \in pendingTimeouts : t.downloadId = j},
      Prefixed(files, j), cancelAcks[j]>>

\* C33: every event on a stream carries the id of the stream's job, and a
\* step that changes what belongs to one job, its cancel, failure or
\* completion among them, leaves what belongs to every other job
C33_JobsIsolated ==
    /\ [](\A j \in Ids : \A i \in 1..Len(stream[j]) : stream[j][i].downloadId = j)
    /\ [][\A a \in Ids :
            JobView(a)' # JobView(a)
                => \A b \in Ids \ {a} : JobView(b)' = JobView(b)]_vars

\* C33 witness: one job was cancelled and its process has ended, and the
\* job beside it runs on, registered, its stream open and nothing added
C33_Witness ==
    \E a \in Ids, b \in Ids :
        /\ a # b
        /\ cancelAcks[a] = 1 /\ proc[a].st = "closed"
        /\ Live(b) /\ ~proc[b].signalled /\ b \in activeDownloads
        /\ controller[b] = "open" /\ stream[b] = <<Started(b)>>
        /\ cancelAcks[b] = 0

\* C34: a client's entry is written only by the step that admits a request
\* of that client, which writes no other entry; no cancel and no callback of
\* a job writes any; so each count is the number of the client's admissions
\* in its window, whatever became of the jobs
C34_OwnEntryOnly ==
    /\ [](\A c \in DOMAIN rateLimits :
            rateLimits[c].count =
                Cardinality(Admissions(c, rateLimits[c].resetTime - WINDOW_MS,
                                       rateLimits[c].resetTime)))
    /\ [][ /\ DOMAIN rateLimits \subseteq DOMAIN rateLimits'
           /\ \A c \in DOMAIN rateLimits' :
                (c \notin DOMAIN rateLimits \/ rateLimits'[c] # rateLimits[c])
                    => /\ admitted' = Append(admitted, [clientId |-> c, at |-> now])
                       /\ \A d \in DOMAIN rateLimits \ {c} :
                             rateLimits'[d] = rateLimits[d]]_vars

\* C34 witness: two clients with one admission each; the job of one was
\* cancelled, the job of the other failed, and both counts are 1
C34_Witness ==
    \E a \in Ids, b \in Ids :
        /\ a < nextId /\ b < nextId
        /\ admitted[a].clientId # admitted[b].clientId
        /\ cancelAcks[a] = 1
        /\ cancelAcks[b] = 0 /\ Positions(b, {"error"}) # {}
        /\ \A c \in DOMAIN rateLimits : rateLimits[c].count = 1

\* C35: every job that was admitted is, from some moment on, out of
\* activeDownloads with its event stream no longer open
C35_EveryJobIsReleased ==
    \A j \in Jobs :
        (proc[j].st # "none")
            ~> [](j \notin activeDownloads /\ controller[j] # "open")

\* C35 witness: a job that nobody cancelled and whose consumer stayed has
\* ended with code 0 and its file: it is out of the registry and its stream
\* is closed after `complete`
C35_Witness ==
    \E j \in Jobs :
        /\ proc[j].st = "closed" /\ cancelAcks[j] = 0
        /\ j \notin activeDownloads /\ controller[j] = "closed"
        /\ Positions(j, {"complete"}) = {Len(stream[j])}

\* a file leaves the directory only by the timer scheduled for it
OnlyOwnTimerDeletes ==
    \A f \in files \ files' :
        \E t \in pendingTimeouts \ pendingTimeouts' :
            t.filePath = f /\ t.downloadId = f.id

\* while a job's `complete` is published and its timer is pending, a fetch
\* with the job's id finds the job's file
RetainedIsFound ==
    \A j \in Ids :
        Retained(j) =>
            /\ FetchStatus(files, Uuid(j)) = 200
            /\ Found(files, Uuid(j)) = Prefixed(files, j)

\* C36 as stated: from a job's `complete` to the firing of its timer no
\* other operation deletes its file, a fetch with the job's id finds the
\* file, and every fetch made in that time returns the file's bytes
C36_RetainedFetchReturnsFile ==
    /\ [](RetainedIsFound /\ \A r \in reads : r.retained => r.st # "failed")
    /\ [][OnlyOwnTimerDeletes]_vars

\* C37: no job id is in activeDownloads and in fileCleanupTimers at once, and
\* no pending timer is of a registered job: a cancel of a job with a timer
\* is answered 'not found' and clears nothing
C37_NoTimerWhileRegistered ==
    /\ activeDownloads \cap fileCleanupTimers = {}
    /\ \A t \in pendingTimeouts :
          /\ t.downloadId \notin activeDownloads
          /\ DeleteStatus(activeDownloads, t.downloadId) = 404

\* C37 witness: a completed job with its file and its timer pending, which
\* nobody has cancelled and which a cancel would not find
C37_Witness ==
    \E j \in Ids :
        /\ j \in fileCleanupTimers /\ cancelAcks[j] = 0
        /\ Positions(j, {"complete"}) # {}
        /\ Prefixed(files, j) # {}
        /\ DeleteStatus(activeDownloads, j) = 404

\* C38 as stated: a fetch is answered with a file's bytes only when its id
\* is the id of a job that has a file in the directory; any other text, a
\* beginning of such an id among them, is answered 'not found'
C38_FetchOnlyByFullId ==
    \A text \in FetchIds :
        FetchStatus(files, text) = 200
            => \E j \in Ids : text = Uuid(j) /\ Prefixed(files, j) # {}

====
